---- MODULE Spec2Model ----
(***************************************************************************)
(* Model of release.py, a Streamlit script: a standard curve is fitted to  *)
(* an editable calibration table, the fit is inverted on the absorbance    *)
(* readings of 1..9 editable sample tables, and the released amounts are   *)
(* accumulated per sample.  Streamlit runs the whole script after every    *)
(* widget event, so every action below is "change one widget value, then   *)
(* run the script top to bottom".                                          *)
(*                                                                         *)
(* Numbers.  The script computes in IEEE doubles.  The model computes in   *)
(* exact rationals extended with the three special doubles the script can  *)
(* produce: a value is a record [n, d] in lowest terms with d > 0, or      *)
(* d = 0 and n = 1 (+inf), n = -1 (-inf), n = 0 (NaN).  Rounding error is  *)
(* abstracted away; division by zero, NaN propagation and Python's         *)
(* max(0.0, x) on NaN are kept as the doubles do them.                     *)
(***************************************************************************)
EXTENDS Integers, Sequences, FiniteSets, TLC

\* ------------------------------------------------------------ doubles

Abs(i) == IF i < 0 THEN -i ELSE i

Sign(i) == IF i > 0 THEN 1 ELSE IF i < 0 THEN -1 ELSE 0

gcd[a \in Nat, b \in Nat] == IF b = 0 THEN a ELSE gcd[b, a % b]

Floats == [n : Int, d : Nat]

\* n/d divided through by g.
Reduced[n \in Int, d \in Nat, g \in Nat] ==
    [n |-> Sign(n) * (Abs(n) \div g), d |-> d \div g]

\* n/d in lowest terms, for d > 0.
Norm[n \in Int, d \in Nat] == Reduced[n, d, gcd[Abs(n), d]]

F(i) == [n |-> i, d |-> 1]

Zero == F(0)

NaN == [n |-> 0, d |-> 0]

PosInf == [n |-> 1, d |-> 0]

NegInf == [n |-> -1, d |-> 0]

IsNaN(a) == a.d = 0 /\ a.n = 0

IsFinite(a) == a.d > 0

FNeg[a \in Floats] == [n |-> -a.n, d |-> a.d]

\* The sum of two finite values whose denominators have the common divisor g.
AddOver[a \in Floats, b \in Floats, g \in Nat] ==
    Norm[a.n * (b.d \div g) + b.n * (a.d \div g), (a.d \div g) * b.d]

\* a + b.  inf + (-inf) is NaN, as for doubles.
FAdd[a \in Floats, b \in Floats] ==
    IF IsNaN(a) \/ IsNaN(b) THEN NaN
    ELSE IF ~IsFinite(a) /\ ~IsFinite(b) THEN (IF a.n = b.n THEN a ELSE NaN)
    ELSE IF ~IsFinite(a) THEN a
    ELSE IF ~IsFinite(b) THEN b
    ELSE AddOver[a, b, gcd[a.d, b.d]]

FSub[a \in Floats, b \in Floats] == FAdd[a, FNeg[b]]

\* The product of two finite values in lowest terms, g1 and g2 cancelled
\* across (g1 divides a.n and b.d, g2 divides b.n and a.d).
MulOver[a \in Floats, b \in Floats, g1 \in Nat, g2 \in Nat] ==
    [n |-> (Sign(a.n) * (Abs(a.n) \div g1)) * (Sign(b.n) * (Abs(b.n) \div g2)),
     d |-> (a.d \div g2) * (b.d \div g1)]

\* a * b.  0 * inf is NaN, as for doubles.
FMul[a \in Floats, b \in Floats] ==
    IF IsNaN(a) \/ IsNaN(b) THEN NaN
    ELSE IF ~IsFinite(a) \/ ~IsFinite(b)
         THEN (IF a.n = 0 \/ b.n = 0 THEN NaN
               ELSE [n |-> Sign(a.n) * Sign(b.n), d |-> 0])
    ELSE MulOver[a, b, gcd[Abs(a.n), b.d], gcd[Abs(b.n), a.d]]

\* a / b as numpy divides doubles: x/0 is +inf or -inf by the sign of x,
\* 0/0 is NaN, and no exception is raised.
FDiv[a \in Floats, b \in Floats] ==
    IF IsNaN(a) \/ IsNaN(b) THEN NaN
    ELSE IF ~IsFinite(b) THEN (IF IsFinite(a) THEN Zero ELSE NaN)
    ELSE IF b.n = 0 THEN [n |-> Sign(a.n), d |-> 0]
    ELSE IF ~IsFinite(a) THEN [n |-> a.n * Sign(b.n), d |-> 0]
    ELSE FMul[a, [n |-> Sign(b.n) * b.d, d |-> Abs(b.n)]]

\* a > b on doubles: every comparison with NaN is false.
FGt[a \in Floats, b \in Floats] ==
    IF IsNaN(a) \/ IsNaN(b) THEN FALSE
    ELSE IF a = b THEN FALSE
    ELSE IF ~IsFinite(a) THEN a.n = 1
    ELSE IF ~IsFinite(b) THEN b.n = -1
    ELSE FSub[a, b].n > 0

\* a <= b on doubles.
FLeq[a \in Floats, b \in Floats] == ~IsNaN(a) /\ ~IsNaN(b) /\ ~FGt[a, b]

\* The sum of the entries of s, left to right.
FSum(s) ==
    LET sum[k \in 0..Len(s)] == IF k = 0 THEN Zero ELSE FAdd[sum[k - 1], s[k]]
    IN  sum[Len(s)]

\* Body(v) for v the value of e, which is computed once.
Let(e, Body(_)) == CHOOSE r \in {Body(v) : v \in {e}} : TRUE

\* ------------------------------------------------------------ cells

\* A cell of an editable table: a number, or anything pandas cannot parse
\* as one (text, or the None of a freshly added row).
Num(n, d) == [ok |-> TRUE, n |-> n, d |-> d]

Bad == [ok |-> FALSE, n |-> 0, d |-> 0]

\* pd.to_numeric(cell, errors='coerce'): the number, or NaN.
ToNumeric(c) == IF c.ok THEN Norm[c.n, c.d] ELSE NaN

\* Series.dropna(): the entries that are not NaN, in order.
DropNa(s) == SelectSeq(s, LAMBDA v : ~IsNaN(v))

Column(t, name) == [k \in 1..Len(t) |-> t[k][name]]

\* ------------------------------------------------------------ step 1: standard curve

\* df_std, the table the calibration editor starts with.
df_std ==
    << [conc |-> Num(0, 1),   abs |-> Num(0, 100)],
       [conc |-> Num(10, 1),  abs |-> Num(5, 100)],
       [conc |-> Num(25, 1),  abs |-> Num(12, 100)],
       [conc |-> Num(50, 1),  abs |-> Num(25, 100)],
       [conc |-> Num(100, 1), abs |-> Num(50, 100)],
       [conc |-> Num(200, 1), abs |-> Num(100, 100)] >>

\* x_std: the concentration column, coerced, with its own NaNs dropped.
XStd(t) == DropNa([k \in 1..Len(t) |-> ToNumeric(t[k].conc)])

\* y_std: the absorbance column, coerced, with its own NaNs dropped.
YStd(t) == DropNa([k \in 1..Len(t) |-> ToNumeric(t[k].abs)])

Mean(s) == FDiv[FSum(s), F(Len(s))]

\* np.cov(x, y, bias=1)[0][1], for x and y of one length: the mean of the
\* products of the deviations from the means.
Cov(x, y) ==
    Let(Mean(x), LAMBDA xm :
    Let(Mean(y), LAMBDA ym :
        Mean([k \in 1..Len(x) |-> FMul[FSub[x[k], xm], FSub[y[k], ym]]])))

\* scipy.stats.linregress(x, y) raises ValueError, which the script does not
\* catch: y is empty, all x are identical, or x and y differ in length.
LinregressRaises(x, y) ==
    \/ Len(x) = 0
    \/ Len(y) = 0
    \/ (Len(x) > 1 /\ \A k \in 1..Len(x) : x[k] = x[1])
    \/ Len(x) # Len(y)

\* The slope and intercept linregress returns when it does not raise:
\* slope = ssxym / ssxm, intercept = ymean - slope * xmean.
Linregress(x, y) ==
    Let(FDiv[Cov(x, y), Cov(x, x)], LAMBDA sl :
        [slope |-> sl, intercept |-> FSub[Mean(y), FMul[sl, Mean(x)]]])

\* The size test that chooses between the fit and the fallback.
EnoughPoints(t) == Len(XStd(t)) >= 2

FallbackSlope == F(1)

FallbackIntercept == F(0)

\* Step 1 as a whole: what the script has bound when it leaves the section.
\*   raised   - linregress raised, the run stops here
\*   warned   - st.warning("Please enter at least two valid data points ...")
\*   fitted   - slope and intercept come from linregress
StandardCurve(t) ==
    Let(XStd(t), LAMBDA x :
    Let(YStd(t), LAMBDA y :
        IF EnoughPoints(t)
        THEN IF LinregressRaises(x, y)
             THEN [raised |-> TRUE, warned |-> FALSE, fitted |-> FALSE,
                   slope |-> NaN, intercept |-> NaN]
             ELSE Let(Linregress(x, y), LAMBDA fit :
                  [raised |-> FALSE, warned |-> FALSE, fitted |-> TRUE,
                   slope |-> fit.slope, intercept |-> fit.intercept])
        ELSE [raised |-> FALSE, warned |-> TRUE, fitted |-> FALSE,
              slope |-> FallbackSlope, intercept |-> FallbackIntercept]))

\* ------------------------------------------------------------ step 2: release samples

\* df_release, the table every sample editor starts with.
df_release ==
    [k \in 1..7 |-> [time |-> Num(<<0, 1, 2, 4, 8, 12, 24>>[k], 1), abs |-> Num(0, 100)]]

sample_volume == 25

\* Max0 without the floor: x as it is.
Max0Unfloored(x) == x

\* max(0.0, x) of Python: x when x > 0.0 is true, else 0.0; so NaN gives 0.0.
Max0(x) == IF FGt[x, Zero] THEN x ELSE Zero

\* One entry of concs: (to_numeric(absorbance) - intercept) / slope, floored.
Resolve(c, slope, intercept) == Max0(FDiv[FSub[ToNumeric(c), intercept], slope])

Concs(t, slope, intercept) == [k \in 1..Len(t) |-> Resolve(t[k].abs, slope, intercept)]

AmountReleased(concs) == [k \in 1..Len(concs) |-> FMul[concs[k], F(sample_volume)]]

\* CumSum without the running sum: the amounts themselves.
CumSumNotSummed(s) == s

\* Series.cumsum(): the running sum in row order; a NaN entry stays NaN and
\* is skipped by the running sum.
CumSum(s) ==
    LET run[k \in 0..Len(s)] ==
            IF k = 0 THEN Zero
            ELSE IF IsNaN(s[k]) THEN run[k - 1]
            ELSE FAdd[run[k - 1], s[k]]
    IN  [k \in 1..Len(s) |-> IF IsNaN(s[k]) THEN NaN ELSE run[k]]

\* result_df of one sample: one row per row of the edited table.
ResultDf(t, slope, intercept) ==
    Let(Concs(t, slope, intercept), LAMBDA concs :
    Let(AmountReleased(concs), LAMBDA amount_released :
    Let(CumSum(amount_released), LAMBDA cumulative_release :
        [k \in 1..Len(t) |->
            [time |-> t[k].time,
             absorbance |-> t[k].abs,
             concentration |-> concs[k],
             amount_released |-> amount_released[k],
             cumulative_release |-> cumulative_release[k]]])))

Label(i) == "Sample " \o ToString(i)

\* ReleaseLoop with every iteration reading the table of the first sample.
ReleaseLoopFirstTable(n, tables, slope, intercept) ==
    [i \in 1..n |-> [label |-> Label(i), df |-> ResultDf(tables[1], slope, intercept)]]

\* The loop over range(num_samples): entry i of all_cumulative is appended
\* by iteration i, from the table of sample i and the one slope and intercept.
ReleaseLoop(n, tables, slope, intercept) ==
    [i \in 1..n |-> [label |-> Label(i), df |-> ResultDf(tables[i], slope, intercept)]]

\* The comparative plot: one series per entry when there is more than one.
ComparativePlot(all) ==
    IF Len(all) > 1
    THEN [k \in 1..Len(all) |->
            [label |-> all[k].label,
             x |-> Column(all[k].df, "time"),
             y |-> Column(all[k].df, "cumulative_release")]]
    ELSE <<>>

\* ------------------------------------------------------------ the script, top to bottom

\* Script with the fit taken from df_std instead of the edited table.
ScriptFitsDefault(s, n, r) ==
    Let(StandardCurve(df_std), LAMBDA sc :
    Let(ReleaseLoop(n, r, sc.slope, sc.intercept), LAMBDA all :
        [fault |-> FALSE, warned |-> sc.warned, fitted |-> sc.fitted,
         slope |-> sc.slope, intercept |-> sc.intercept,
         all_cumulative |-> all, plot |-> ComparativePlot(all)]))

\* One run of the script on the widget values (s: calibration table, n: number
\* of samples, r: sample tables).  When linregress raises, the run ends there:
\* nothing below the call is executed or shown.
Script(s, n, r) ==
    Let(StandardCurve(s), LAMBDA sc :
        IF sc.raised
        THEN [fault |-> TRUE, warned |-> FALSE, fitted |-> FALSE,
              slope |-> NaN, intercept |-> NaN,
              all_cumulative |-> <<>>, plot |-> <<>>]
        ELSE Let(ReleaseLoop(n, r, sc.slope, sc.intercept), LAMBDA all :
             [fault |-> FALSE, warned |-> sc.warned, fitted |-> sc.fitted,
              slope |-> sc.slope, intercept |-> sc.intercept,
              all_cumulative |-> all, plot |-> ComparativePlot(all)]))

\* ------------------------------------------------------------ state

VARIABLES
    std_editor,      \* edited_std_df: rows [conc, abs] of cells
    num_samples,     \* the selectbox value
    release_editor,  \* df_edit of each rendered sample: 1..num_samples -> rows [time, abs]
    ran,             \* the script has run on the current widget values
    fault,           \* the last run ended in an uncaught exception
    warned,          \* the last run showed the two-points warning
    fitted,          \* slope and intercept of the last run come from linregress
    slope,
    intercept,
    all_cumulative,  \* <<[label, df]>> built by the last run
    plot,            \* series of the comparative plot of the last run
    edits            \* widget events so far

inputs == <<std_editor, num_samples, release_editor>>

outputs == <<fault, warned, fitted, slope, intercept, all_cumulative, plot>>

vars == <<std_editor, num_samples, release_editor, ran, fault, warned, fitted, slope,
          intercept, all_cumulative, plot, edits>>

\* The widgets take the values s, n, r and the script runs on them.
RunOn(s, n, r) ==
    \E o \in {Script(s, n, r)} :
        /\ std_editor' = s
        /\ num_samples' = n
        /\ release_editor' = r
        /\ ran' = TRUE
        /\ fault' = o.fault
        /\ warned' = o.warned
        /\ fitted' = o.fitted
        /\ slope' = o.slope
        /\ intercept' = o.intercept
        /\ all_cumulative' = o.all_cumulative
        /\ plot' = o.plot

\* ------------------------------------------------------------ bounds and input sets

\* Widget events in one session.
MaxEdits == 1

\* Rows of a calibration table typed in from scratch.
MaxStdRows == 2

\* Rows of a sample table typed in from scratch.
MaxRelRows == 2

\* What a single cell edit of the session types into a cell.
EditCells == {Num(1, 1), Bad}

\* Cells of the tables typed in from scratch.
ConcCells == {Num(0, 1), Num(1, 1), Bad}

AbsCells == {Num(0, 1), Num(1, 1), Num(2, 1), Bad}

SeqsUpTo(S, n) == UNION {[1..k -> S] : k \in 0..n}

StdTables == SeqsUpTo([conc : ConcCells, abs : AbsCells], MaxStdRows)

\* Sample tables keep the time column of df_release; the absorbances are typed.
RelTables ==
    {[k \in 1..Len(a) |-> [time |-> df_release[k].time, abs |-> a[k]]] :
        a \in SeqsUpTo(AbsCells, MaxRelRows)}

\* ------------------------------------------------------------ the session

\* list(range(1, 10)), index=2
NumSamplesOptions == 1..9

DefaultNumSamples == 3

\* The page as first served: the default tables, and the script has run.
Init ==
    \E o \in {Script(df_std, DefaultNumSamples, [i \in 1..DefaultNumSamples |-> df_release])} :
        /\ std_editor = df_std
        /\ num_samples = DefaultNumSamples
        /\ release_editor = [i \in 1..DefaultNumSamples |-> df_release]
        /\ ran = TRUE
        /\ fault = o.fault
        /\ warned = o.warned
        /\ fitted = o.fitted
        /\ slope = o.slope
        /\ intercept = o.intercept
        /\ all_cumulative = o.all_cumulative
        /\ plot = o.plot
        /\ edits = 0

SetCell(t, k, col, c) == [t EXCEPT ![k][col] = c]

AddRow(t, row) == Append(t, row)

DeleteRow(t, k) == SubSeq(t, 1, k - 1) \o SubSeq(t, k + 1, Len(t))

Event == ran /\ edits < MaxEdits /\ edits' = edits + 1

\* A cell of the calibration editor is changed.
SetStdCell(k, col, c) ==
    /\ Event
    /\ k \in 1..Len(std_editor)
    /\ std_editor[k][col] # c
    /\ RunOn(SetCell(std_editor, k, col, c), num_samples, release_editor)

\* num_rows="dynamic": a row is added, its cells empty.
AddStdRow ==
    /\ Event
    /\ RunOn(AddRow(std_editor, [conc |-> Bad, abs |-> Bad]), num_samples, release_editor)

DeleteStdRow(k) ==
    /\ Event
    /\ k \in 1..Len(std_editor)
    /\ RunOn(DeleteRow(std_editor, k), num_samples, release_editor)

\* A cell of the editor of sample i is changed.
SetReleaseCell(i, k, col, c) ==
    /\ Event
    /\ i \in 1..num_samples
    /\ k \in 1..Len(release_editor[i])
    /\ release_editor[i][k][col] # c
    /\ RunOn(std_editor, num_samples,
             [release_editor EXCEPT ![i] = SetCell(@, k, col, c)])

AddReleaseRow(i) ==
    /\ Event
    /\ i \in 1..num_samples
    /\ RunOn(std_editor, num_samples,
             [release_editor EXCEPT ![i] = AddRow(@, [time |-> Bad, abs |-> Bad])])

DeleteReleaseRow(i, k) ==
    /\ Event
    /\ i \in 1..num_samples
    /\ k \in 1..Len(release_editor[i])
    /\ RunOn(std_editor, num_samples, [release_editor EXCEPT ![i] = DeleteRow(@, k)])

\* Another number of samples is selected.  The editors still rendered keep
\* their tables; an editor rendered anew starts from df_release.
SelectNumSamples(n) ==
    /\ Event
    /\ n \in NumSamplesOptions
    /\ n # num_samples
    /\ RunOn(std_editor, n,
             [i \in 1..n |-> IF i <= num_samples THEN release_editor[i] ELSE df_release])

\* The script runs again on unchanged tables (a reflection text area is
\* edited, the page is refreshed by a widget outside the tables).
Rerun ==
    /\ RunOn(std_editor, num_samples, release_editor)
    /\ UNCHANGED edits

Next ==
    \/ \E k \in 1..(Len(df_std) + MaxEdits), col \in {"conc", "abs"}, c \in EditCells :
            SetStdCell(k, col, c)
    \/ AddStdRow
    \/ \E k \in 1..(Len(df_std) + MaxEdits) : DeleteStdRow(k)
    \/ \E i \in NumSamplesOptions, k \in 1..(Len(df_release) + MaxEdits),
          col \in {"time", "abs"}, c \in EditCells :
            SetReleaseCell(i, k, col, c)
    \/ \E i \in NumSamplesOptions : AddReleaseRow(i)
    \/ \E i \in NumSamplesOptions, k \in 1..(Len(df_release) + MaxEdits) :
            DeleteReleaseRow(i, k)
    \/ \E n \in NumSamplesOptions : SelectNumSamples(n)
    \/ Rerun

Spec == Init /\ [][Next]_vars

\* ------------------------------------------------------------ one run on typed-in tables

\* The calibration table and the table of one sample are any tables of the
\* input sets; the script has not run on them yet.
InitTables ==
    /\ std_editor \in StdTables
    /\ num_samples = 1
    /\ release_editor \in [1..1 -> RelTables]
    /\ ran = FALSE
    /\ fault = FALSE
    /\ warned = FALSE
    /\ fitted = FALSE
    /\ slope = NaN
    /\ intercept = NaN
    /\ all_cumulative = <<>>
    /\ plot = <<>>
    /\ edits = 0

NextTables == Rerun

SpecTables == InitTables /\ [][NextTables]_vars

\* ------------------------------------------------------------ properties

\* The result tables of the last run.
Tables == {all_cumulative[i].df : i \in 1..Len(all_cumulative)}

Numeric(c) == c.ok

\* The rows of a calibration table whose two cells are both numbers.
ValidPoints(t) == SelectSeq(t, LAMBDA row : Numeric(row.conc) /\ Numeric(row.abs))

\* C1: in every result table a run produces, cumulative_release never
\* decreases from one row to the next, and its last value is the sum of the
\* amount_released column.
C1_CumulativeNonDecreasing ==
    ran =>
        \A df \in Tables :
            /\ \A k \in 1..(Len(df) - 1) :
                    FLeq[df[k].cumulative_release, df[k + 1].cumulative_release]
            /\ Len(df) > 0 =>
                    df[Len(df)].cumulative_release = FSum(Column(df, "amount_released"))

\* A run floored the first reading of a table at zero (its absorbance is
\* below the intercept) and the cumulative release grows on the second row.
C1_Witness ==
    /\ ran
    /\ \E df \in Tables :
        /\ Len(df) = 2
        /\ Numeric(df[1].absorbance)
        /\ FGt[intercept, ToNumeric(df[1].absorbance)]
        /\ df[1].cumulative_release = Zero
        /\ FGt[df[2].cumulative_release, df[1].cumulative_release]
        /\ IsFinite(df[2].cumulative_release)

\* C2: when the slope of the model is zero, no concentration, amount or
\* cumulative value is produced as a number: every result table is withheld
\* (empty) or holds only undefined (NaN) values.
C2_ZeroSlopeWithheld ==
    (ran /\ ~fault /\ slope = Zero) =>
        \A df \in Tables : \A k \in 1..Len(df) :
            /\ IsNaN(df[k].concentration)
            /\ IsNaN(df[k].amount_released)
            /\ IsNaN(df[k].cumulative_release)

\* C3: with fewer than two valid calibration points the run does not fit, warns
\* and uses slope 1, intercept 0; with two or more it uses the fitted model.
C3_FallbackIffFewPoints ==
    ran =>
        IF Len(ValidPoints(std_editor)) < 2
        THEN ~fault /\ warned /\ ~fitted /\ slope = F(1) /\ intercept = F(0)
        ELSE ~fault /\ fitted /\ ~warned

\* C4: the points given to the fit are the rows with two numeric cells, each
\* concentration with the absorbance of its row; the size test counts them.
C4_FitUsesWholeRows ==
    ran =>
        /\ XStd(std_editor) = [k \in 1..Len(ValidPoints(std_editor)) |->
                                    ToNumeric(ValidPoints(std_editor)[k].conc)]
        /\ YStd(std_editor) = [k \in 1..Len(ValidPoints(std_editor)) |->
                                    ToNumeric(ValidPoints(std_editor)[k].abs)]
        /\ Len(XStd(std_editor)) = Len(YStd(std_editor))
        /\ EnoughPoints(std_editor) <=> Len(ValidPoints(std_editor)) >= 2

\* C5: a result table has no record for a reading whose absorbance is not a
\* number; its records are those of the numeric readings, in their order.
C5_NonNumericReadingDropped ==
    (ran /\ ~fault) =>
        \A i \in 1..Len(all_cumulative) :
            /\ \A k \in 1..Len(all_cumulative[i].df) :
                    Numeric(all_cumulative[i].df[k].absorbance)
            /\ Column(all_cumulative[i].df, "absorbance")
                    = SelectSeq(Column(release_editor[i], "abs"), Numeric)

\* C6: with the model of a run, the resolved concentration is never negative
\* when the slope is not zero, and when the slope is positive it does not
\* decrease as the absorbance grows; the concentrations of the result tables
\* are such values.
C6_ResolveNonNegativeMonotone ==
    (ran /\ ~fault /\ slope # Zero) =>
        /\ \A c \in AbsCells : FLeq[Zero, Resolve(c, slope, intercept)]
        /\ \A df \in Tables : \A k \in 1..Len(df) :
                /\ FLeq[Zero, df[k].concentration]
                /\ df[k].concentration = Resolve(df[k].absorbance, slope, intercept)
        /\ FGt[slope, Zero] =>
                \A c1, c2 \in {c \in AbsCells : Numeric(c)} :
                    FLeq[ToNumeric(c1), ToNumeric(c2)] =>
                        FLeq[Resolve(c1, slope, intercept), Resolve(c2, slope, intercept)]

\* A run with a positive slope floored one reading (its absorbance is below
\* the intercept) and resolved a larger one to a positive concentration.
C6_Witness ==
    /\ ran /\ ~fault /\ FGt[slope, Zero]
    /\ \E df \in Tables : \E j, k \in 1..Len(df) :
        /\ Numeric(df[j].absorbance)
        /\ FGt[intercept, ToNumeric(df[j].absorbance)]
        /\ df[j].concentration = Zero
        /\ FGt[df[k].concentration, Zero]

\* C8: every run completes: it ends with a model and one result table per
\* selected sample.
C8_RunCompletes ==
    ran => (~fault /\ (fitted \/ warned) /\ Len(all_cumulative) = num_samples)

\* The result tables the current widget values give: one per sample, each from
\* that sample's table and the model of the current calibration table.
UpToDate ==
    Let(StandardCurve(std_editor), LAMBDA sc :
        IF sc.raised
        THEN fault /\ all_cumulative = <<>> /\ plot = <<>>
        ELSE /\ ~fault
             /\ slope = sc.slope
             /\ intercept = sc.intercept
             /\ Len(all_cumulative) = num_samples
             /\ \A i \in 1..num_samples :
                    all_cumulative[i].df
                        = ResultDf(release_editor[i], sc.slope, sc.intercept)
             /\ plot = ComparativePlot(all_cumulative))

\* C9: after every edit of the calibration table, of a sample table or of the
\* number of samples, the tables shown are those of the current widget values
\* (none survives from an earlier model or earlier readings), and a run on
\* unchanged widget values changes nothing.
C9_RecomputedFromCurrentInputs ==
    /\ [](ran => UpToDate)
    /\ [][(ran /\ inputs' = inputs) => outputs' = outputs]_vars

\* An edit of the calibration table gave a new fitted model, and the tables
\* shown differ from the ones first shown.
C9_Witness ==
    /\ edits > 0
    /\ std_editor # df_std
    /\ fitted
    /\ slope # StandardCurve(df_std).slope
    /\ all_cumulative[1].df # ResultDf(df_release, StandardCurve(df_std).slope,
                                       StandardCurve(df_std).intercept)
    /\ \E k \in 1..Len(all_cumulative[1].df) :
            FGt[all_cumulative[1].df[k].concentration, Zero]

\* The sample tables in reverse order.
Reversed(r, n) == [j \in 1..n |-> r[n + 1 - j]]

\* What a completed run holds for the samples: one entry per selected sample,
\* labelled "Sample i", computed from the table of sample i alone with the one
\* model, with the time values of that table; the loop run over the samples in
\* reverse order gives every sample the same table.
OneEntryPerSample ==
    /\ num_samples \in 1..9
    /\ Len(all_cumulative) = num_samples
    /\ \A i \in 1..num_samples :
        /\ all_cumulative[i].label = Label(i)
        /\ all_cumulative[i].df = ResultDf(release_editor[i], slope, intercept)
        /\ Column(all_cumulative[i].df, "time") = Column(release_editor[i], "time")
        /\ ReleaseLoop(num_samples, Reversed(release_editor, num_samples),
                       slope, intercept)[num_samples + 1 - i].df
                = all_cumulative[i].df
        /\ Len(plot) > 0 => plot[i].x = Column(release_editor[i], "time")
    /\ \A i, j \in 1..num_samples :
            all_cumulative[i].label = all_cumulative[j].label => i = j

\* A step leaves the table of every sample alone whose readings it does not
\* change, when it leaves the model alone.
OthersUnchanged ==
    \A j \in 1..num_samples :
        (/\ ~fault
         /\ ~fault'
         /\ j <= num_samples'
         /\ release_editor'[j] = release_editor[j]
         /\ slope' = slope
         /\ intercept' = intercept)
        => all_cumulative'[j] = all_cumulative[j]

\* C10: in every run that has a model, the table of a sample depends on that
\* sample's readings, the model and sample_volume alone: an edit of sample i
\* leaves the records of every other sample unchanged, the order of the loop
\* does not matter, and there is one entry per selected sample (1 to 9) with
\* its own time values and its own label "Sample k".
C10_SamplesIndependent ==
    /\ []((ran /\ ~fault) => OneEntryPerSample)
    /\ [][OthersUnchanged]_vars

\* A sample was edited: its table differs from that of the next sample, which
\* still shows what it showed before, and the two keep different time axes.
C10_Witness ==
    /\ edits > 0
    /\ ~fault
    /\ num_samples = 3
    /\ release_editor[1] # df_release
    /\ release_editor[2] = df_release
    /\ all_cumulative[1].df # all_cumulative[2].df
    /\ all_cumulative[2].df = ResultDf(df_release, slope, intercept)
    /\ Column(all_cumulative[1].df, "time") # Column(all_cumulative[2].df, "time")
    /\ Len(plot) = 3

====
